---- MODULE Spec2Model ----
(***************************************************************************)
(* A model of ksis_export.py: the name resolver and its correction stores, *)
(* the row extractor, the session/competition aggregator and the CSV       *)
(* exporter.  Strings are sequences of one-character strings, so that the  *)
(* string operations of the source (strip, split, lower, substring test,   *)
(* sort order) are computed and not assumed.                               *)
(***************************************************************************)
EXTENDS Integers, Sequences, FiniteSets, TLC

VARIABLES
    pandas,               \* check_pandas(): pandas and openpyxl import
    athFile,              \* "Athlete Name Corrections.xlsx" on disk
    clubFile,             \* "Club Name Corrections.xlsx" on disk
    CLUB_CORRECTIONS,     \* global dict, line 29
    ATHLETE_CORRECTIONS,  \* global dict, line 30
    NAME_CACHE,           \* global dict, line 28
    pc,                   \* where the process is
    frame,                \* locals of the call suspended in input()
    run,                  \* index of the current process run
    calls,                \* reorder_name calls made so far, over all runs
    returned,             \* raw name -> first value returned in this run
    last,                 \* observation of the last completed reorder_name
    chosen,               \* name -> the last choice made for it at a prompt
    lastclub,             \* observation of the last standardize_club call
    headers,              \* header list of the session's table
    comp_name,            \* fetch_competition_data: comp_name
    comp_date,            \* fetch_competition_data: comp_date
    session_name,         \* fetch_competition_data: session_name
    all_rows,             \* fetch_competition_data: all_rows
    all_headers,          \* fetch_competition_data: all_headers
    row_count,            \* fetch_competition_data: row_count
    rows_done,            \* table rows handed to parse_row_data so far
    lastrow,              \* observation of the last parse_row_data call
    data_rows,            \* fetch_competition_data: data_rows still to parse
    reads,                \* pd.read_excel calls of load_corrections, this run
    prop_ids,             \* export_results_aggregated: ids still to fetch
    visited,              \* ids handed to fetch_competition_data so far
    master_rows,          \* export_results_aggregated: master_rows
    master_headers,       \* export_results_aggregated: master_headers
    total_stats,          \* export_results_aggregated: total_stats
    stats,                \* fetch_competition_data: stats
    processed,            \* options of this competition past the skip test
    sessions_done,        \* options past the skip test, over the whole run
    page_failed,          \* competitions whose page fetch returned nothing
    session_log,          \* observation of the last classified session
    csv,                  \* what write_csv wrote
    report                \* what the export printed about sessions in progress

storeVars == <<pandas, athFile, clubFile, CLUB_CORRECTIONS,
               ATHLETE_CORRECTIONS, NAME_CACHE>>
nameVars == <<run, calls, returned, last, chosen, lastclub>>
rowVars == <<headers, comp_name, comp_date, session_name, all_rows,
             all_headers, row_count, rows_done, lastrow>>
aggVars == <<prop_ids, visited, master_rows, master_headers, total_stats,
             stats, processed, sessions_done, page_failed, session_log, csv,
             report>>
vars == <<storeVars, pc, frame, nameVars, rowVars, data_rows, reads, aggVars>>

----------------------------------------------------------------------------
(* Bounds of the model *)

MaxCalls == 2
MaxRuns == 2
MaxRows == 2
MaxReads == 2

----------------------------------------------------------------------------
(* Strings *)

\* The characters of the model in code point order.
Alphabet ==
    <<" ", ".", "0", "1", "2", "3", "4", "5", "6", "7", "8", "9",
      "A", "B", "C", "D", "E", "F", "G", "H", "I", "J", "K", "L", "M",
      "N", "O", "P", "Q", "R", "S", "T", "U", "V", "W", "X", "Y", "Z", "_",
      "a", "b", "c", "d", "e", "f", "g", "h", "i", "j", "k", "l", "m",
      "n", "o", "p", "q", "r", "s", "t", "u", "v", "w", "x", "y", "z">>

Chars == {Alphabet[i] : i \in 1..Len(Alphabet)}

\* ord(c), as a position in Alphabet
OrdTable == [c \in Chars |-> CHOOSE i \in 1..Len(Alphabet) : Alphabet[i] = c]

Ord(c) == OrdTable[c]

Digits == {"0", "1", "2", "3", "4", "5", "6", "7", "8", "9"}

IsSpace(c) == c = " "

IsUpper(c) == Ord(c) >= Ord("A") /\ Ord(c) <= Ord("Z")

LowerTable ==
    [c \in Chars |-> IF IsUpper(c) THEN Alphabet[Ord(c) + (Ord("a") - Ord("A"))]
                     ELSE c]

LowerChar(c) == LowerTable[c]

\* str.lower()
Lower(s) == [i \in 1..Len(s) |-> LowerChar(s[i])]

RECURSIVE LStrip(_)
LStrip(s) == IF s # <<>> /\ IsSpace(Head(s)) THEN LStrip(Tail(s)) ELSE s

RECURSIVE RStrip(_)
RStrip(s) == IF s # <<>> /\ IsSpace(s[Len(s)])
             THEN RStrip(SubSeq(s, 1, Len(s) - 1))
             ELSE s

\* str.strip()
Strip(s) == RStrip(LStrip(s))

\* re.sub(r'\s+', ' ', s)
RECURSIVE CollapseWs(_)
CollapseWs(s) ==
    IF s = <<>> THEN <<>>
    ELSE IF IsSpace(Head(s)) THEN <<" ">> \o CollapseWs(LStrip(s))
    ELSE <<Head(s)>> \o CollapseWs(Tail(s))

\* Length of the leading run of non-space characters.
RECURSIVE WordLen(_)
WordLen(s) == IF s = <<>> \/ IsSpace(Head(s)) THEN 0 ELSE 1 + WordLen(Tail(s))

\* str.split()
RECURSIVE Split(_)
Split(s) ==
    LET t == LStrip(s) IN
    IF t = <<>> THEN <<>>
    ELSE <<SubSeq(t, 1, WordLen(t))>>
         \o Split(SubSeq(t, WordLen(t) + 1, Len(t)))

\* ' '.join(parts)
RECURSIVE JoinSp(_)
JoinSp(parts) ==
    IF parts = <<>> THEN <<>>
    ELSE IF Len(parts) = 1 THEN parts[1]
    ELSE parts[1] \o <<" ">> \o JoinSp(Tail(parts))

\* sub in s
Contains(s, sub) ==
    \E i \in 0..(Len(s) - Len(sub)) : SubSeq(s, i + 1, i + Len(sub)) = sub

\* str.isdigit()
IsDigitStr(s) == s # <<>> /\ \A i \in 1..Len(s) : s[i] \in Digits

\* int(s) of a digit string
RECURSIVE ParseInt(_)
ParseInt(s) == IF s = <<>> THEN 0
               ELSE 10 * ParseInt(SubSeq(s, 1, Len(s) - 1))
                    + (Ord(s[Len(s)]) - Ord("0"))

\* a < b in the order of sorted(): by code point, a prefix first
RECURSIVE StrLess(_, _)
StrLess(a, b) ==
    IF b = <<>> THEN FALSE
    ELSE IF a = <<>> THEN TRUE
    ELSE IF Head(a) # Head(b) THEN Ord(Head(a)) < Ord(Head(b))
    ELSE StrLess(Tail(a), Tail(b))

----------------------------------------------------------------------------
(* Python dicts are functions on a finite set of keys *)

EmptyDict == [x \in {} |-> <<>>]

IsEmpty(d) == DOMAIN d = {}

Put(d, k, v) == [x \in DOMAIN d \cup {k} |-> IF x = k THEN v ELSE d[x]]

----------------------------------------------------------------------------
(* The correction workbooks *)

\* A workbook on disk: missing (os.path.exists is false), corrupt
\* (pd.read_excel raises on it) or a sheet of two-column rows.
NoFile == [kind |-> "missing", rows |-> <<>>]
Corrupt == [kind |-> "corrupt", rows |-> <<>>]
Sheet(rows) == [kind |-> "sheet", rows |-> rows]

Str_Original == <<"O", "r", "i", "g", "i", "n", "a", "l">>
Str_Corrected == <<"C", "o", "r", "r", "e", "c", "t", "e", "d">>
Str_original == <<"o", "r", "i", "g", "i", "n", "a", "l">>

\* The header row to_excel(header=True) writes for columns Original, Corrected.
HeaderRow == <<Str_Original, Str_Corrected>>

\* str(df.iloc[0]['Original']).strip().lower() == 'original'
IsHeaderRow(row) == Lower(Strip(row[1])) = Str_original

\* "Remove header row if present": df = df.iloc[1:]
DropHeader(rows) ==
    IF rows # <<>> /\ IsHeaderRow(rows[1]) THEN Tail(rows) ELSE rows

\* dict(zip(Original.str.strip(), Corrected.str.strip())): the last row wins
RECURSIVE DictOfRows(_)
DictOfRows(rows) ==
    IF rows = <<>> THEN EmptyDict
    ELSE Put(DictOfRows(SubSeq(rows, 1, Len(rows) - 1)),
             Strip(rows[Len(rows)][1]), Strip(rows[Len(rows)][2]))

\* load_excel_corrections(filename), given the file's content
LoadExcelCorrections(file) ==
    IF file.kind = "missing" THEN EmptyDict
    ELSE IF ~pandas THEN EmptyDict
    ELSE IF file.kind = "corrupt" THEN EmptyDict
    ELSE IF file.rows = <<>> THEN EmptyDict
    ELSE DictOfRows(DropHeader(file.rows))

\* The guard of load_corrections: a store that is already non-empty
AlreadyLoaded == ~IsEmpty(CLUB_CORRECTIONS) \/ ~IsEmpty(ATHLETE_CORRECTIONS)

\* load_corrections(): the two globals after the call
LoadCorrections ==
    IF AlreadyLoaded
    THEN [club |-> CLUB_CORRECTIONS, athlete |-> ATHLETE_CORRECTIONS]
    ELSE [club |-> LoadExcelCorrections(clubFile),
          athlete |-> LoadExcelCorrections(athFile)]

\* Whether load_excel_corrections gets as far as pd.read_excel
ReadExcelRuns(file) == file.kind # "missing" /\ pandas

\* The number of pd.read_excel calls made by load_corrections so far
ReadsAfterLoad ==
    IF AlreadyLoaded THEN reads
    ELSE [club |-> reads.club + (IF ReadExcelRuns(clubFile) THEN 1 ELSE 0),
          athlete |-> reads.athlete
                        + (IF ReadExcelRuns(athFile) THEN 1 ELSE 0)]

ZeroReads == [club |-> 0, athlete |-> 0]

UpdatedSheet_NewRowOnly(file, original, corrected) ==
    IF file.kind = "missing" THEN Sheet(<<HeaderRow, <<original, corrected>>>>)
    ELSE Sheet(<<HeaderRow>> \o DropHeader(file.rows))

\* The rows save_athlete_correction writes back: the existing rows without
\* their header row, then the new row, under a fresh header row.
UpdatedSheet(file, original, corrected) ==
    IF file.kind = "missing" THEN Sheet(<<HeaderRow, <<original, corrected>>>>)
    ELSE Sheet(<<HeaderRow>> \o DropHeader(file.rows)
               \o <<<<original, corrected>>>>)

\* save_athlete_correction(original, corrected): the file and the global
\* after the call.  Without pandas, or when reading the existing workbook
\* raises, nothing is written and the global is left alone.
SaveAthleteCorrection(original, corrected) ==
    IF ~pandas \/ athFile.kind = "corrupt"
    THEN [file |-> athFile, athlete |-> ATHLETE_CORRECTIONS]
    ELSE [file |-> UpdatedSheet(athFile, original, corrected),
          athlete |-> Put(ATHLETE_CORRECTIONS, original, corrected)]

----------------------------------------------------------------------------
(* reorder_name *)

\* name = re.sub(r'\s+', ' ', name).strip()
NormalizeName(raw) == Strip(CollapseWs(raw))

SwapTwo_NoSwap(parts) == parts[1] \o <<" ">> \o parts[2]

\* f"{parts[1]} {parts[0]}"
SwapTwo(parts) == parts[2] \o <<" ">> \o parts[1]

\* A split that leaves the words in the order they were read
ReorderSplit_NoRotate(parts, split_point) == JoinSp(parts)

\* The result of choosing split_point: first name(s), then last name(s)
ReorderSplit(parts, split_point) ==
    JoinSp(SubSeq(parts, split_point + 1, Len(parts)))
    \o <<" ">> \o JoinSp(SubSeq(parts, 1, split_point))

\* choice.isdigit() and 1 <= int(choice) < len(parts), on the stripped input
ValidChoice(choice, parts) ==
    /\ IsDigitStr(Strip(choice))
    /\ 1 <= ParseInt(Strip(choice))
    /\ ParseInt(Strip(choice)) < Len(parts)

CacheStore_Skip(cache, name, result) == cache

\* NAME_CACHE[name] = result
CacheStore(cache, name, result) == Put(cache, name, result)

\* reorder_name up to its return or its prompt.  kind says which branch was
\* taken: "store" and "cache" return without touching NAME_CACHE, "auto"
\* stores the result in NAME_CACHE, "prompt" blocks in input().
ReorderNameAuto(raw) ==
    LET name == NormalizeName(raw)
        parts == Split(name)
    IN  IF name \in DOMAIN ATHLETE_CORRECTIONS
        THEN [kind |-> "store", result |-> ATHLETE_CORRECTIONS[name]]
        ELSE IF name \in DOMAIN NAME_CACHE
        THEN [kind |-> "cache", result |-> NAME_CACHE[name]]
        ELSE IF Len(parts) = 1 THEN [kind |-> "auto", result |-> name]
        ELSE IF Len(parts) = 2 THEN [kind |-> "auto", result |-> SwapTwo(parts)]
        ELSE [kind |-> "prompt", result |-> name]

----------------------------------------------------------------------------
(* String literals of the source *)

F_Name == <<"N", "a", "m", "e">>
F_Club == <<"C", "l", "u", "b">>
F_YOB == <<"Y", "O", "B">>
F_Score == <<"S", "c", "o", "r", "e">>
F_Competition == <<"C", "o", "m", "p", "e", "t", "i", "t", "i", "o", "n">>
F_Session == <<"S", "e", "s", "s", "i", "o", "n">>
F_Date == <<"D", "a", "t", "e">>
F_Unknown == <<"U", "n", "k", "n", "o", "w", "n">>
F_Total == <<"T", "o", "t", "a", "l">>
F_SV == <<"S", "V">>
F_Born == <<"B", "o", "r", "n">>
F_born == <<"b", "o", "r", "n">>
F_E == <<"E">>
F_Bonus == <<"B", "o", "n", "u", "s">>
F_Comp == <<"C", "o", "m", "p">>
F_ND == <<"N", "D">>
F_D == <<"D">>
F_name == <<"n", "a", "m", "e">>
F_gymnast == <<"g", "y", "m", "n", "a", "s", "t">>
F_yob == <<"y", "o", "b">>
F_Col_ == <<"C", "o", "l", "_">>
F_inc == <<"i", "n", "c">>
F_incdot == <<"i", "n", "c", ".">>
F_on == <<"o", "n">>

\* DROP_COLS, line 33
DROP_COLS == {F_E, F_Bonus, F_Comp, F_ND, F_D, F_SV}

\* RENAME_MAP, lines 34-39
RENAME_MAP ==
    [h \in {F_Total, F_SV, F_Born, F_born} |->
        IF h \in {F_Total, F_SV} THEN F_Score ELSE F_YOB]

----------------------------------------------------------------------------
(* standardize_club *)

\* The words of a suffix the pattern
\* \s+(?:Inc\.?\s+ON|ON\s+Inc\.?|Inc\.?|ON)$ removes, lower-cased
IsSuffixWords(ws) ==
    \/ ws = <<F_on>>
    \/ ws \in {<<F_inc>>, <<F_incdot>>}
    \/ ws \in {<<F_inc, F_on>>, <<F_incdot, F_on>>}
    \/ ws \in {<<F_on, F_inc>>, <<F_on, F_incdot>>}

\* Where re.sub finds the pattern: the leftmost white space from which the
\* rest of the string is white space and a suffix, re.IGNORECASE
SuffixStarts(s) ==
    {i \in 1..Len(s) :
        /\ IsSpace(s[i])
        /\ ~IsSpace(s[Len(s)])
        /\ IsSuffixWords(Split(Lower(SubSeq(s, i, Len(s)))))}

Min(S) == CHOOSE x \in S : \A y \in S : x <= y

StripSuffix_Keep(s) == Strip(s)

\* re.sub(suffix_pattern, '', clean_name, flags=re.IGNORECASE).strip()
StripSuffix(s) ==
    IF SuffixStarts(s) = {} THEN Strip(s)
    ELSE Strip(SubSeq(s, 1, Min(SuffixStarts(s)) - 1))

\* standardize_club(club_name)
StandardizeClub(club_name) ==
    IF club_name = <<>> THEN <<>>
    ELSE IF Strip(club_name) \in DOMAIN CLUB_CORRECTIONS
    THEN StripSuffix(Strip(CLUB_CORRECTIONS[Strip(club_name)]))
    ELSE StripSuffix(Strip(club_name))

----------------------------------------------------------------------------
(* parse_row_data *)

\* A table cell is the text of its markup between <br> markers, and the
\* text of its first <a> element if it has one.
Cell(text) == [segs |-> <<text>>, haslink |-> FALSE, link |-> <<>>]

RECURSIVE ConcatStripped(_)
ConcatStripped(segs) ==
    IF segs = <<>> THEN <<>>
    ELSE Strip(Head(segs)) \o ConcatStripped(Tail(segs))

\* c.get_text(strip=True): the text nodes stripped and joined
StrippedText(c) == ConcatStripped(c.segs)

\* re.sub(r'\s+', ' ', c.get_text(strip=True))
CellValue(c) == CollapseWs(StrippedText(c))

\* h and ('name' in h.lower() or 'gymnast' in h.lower())
IsAthleteHeader(h) ==
    h # <<>> /\ (Contains(Lower(h), F_name) \/ Contains(Lower(h), F_gymnast))

\* h and ('born' in h.lower() or 'yob' in h.lower())
IsYobHeader(h) ==
    h # <<>> /\ (Contains(Lower(h), F_born) \/ Contains(Lower(h), F_yob))

\* ath_idx, zero-based as in the source; -1 is "not found"
AthIdx(cells, hdrs) ==
    LET m == {i \in 1..Len(hdrs) : IsAthleteHeader(hdrs[i])} IN
    IF m # {} THEN Min(m) - 1
    ELSE IF Len(cells) > 2 THEN 2 ELSE -1

\* yob_idx, zero-based
YobIdx(cells, hdrs) ==
    LET m == {i \in 1..Len(hdrs) : IsYobHeader(hdrs[i])} IN
    IF m # {} THEN Min(m) - 1
    ELSE IF Len(cells) > 3 /\ IsDigitStr(StrippedText(cells[4]))
            /\ Len(StrippedText(cells[4])) = 4
    THEN 3 ELSE -1

\* Whether the try block extracts a name at all
AthInRange(cells, hdrs) ==
    LET ath_idx == AthIdx(cells, hdrs) IN ath_idx >= 0 /\ ath_idx < Len(cells)

\* raw_name: the link's text, else the text before the first <br>
RawName(c) == IF c.haslink THEN Strip(c.link) ELSE Strip(c.segs[1])

\* raw_club: the text between the first and the second <br>, if any
RawClub(c) == IF Len(c.segs) > 1 THEN Strip(c.segs[2]) ELSE <<>>

\* str(i)
RECURSIVE DecStr(_)
DecStr(i) == IF i < 10 THEN <<Alphabet[Ord("0") + i]>>
             ELSE DecStr(i \div 10) \o <<Alphabet[Ord("0") + (i % 10)]>>

\* clean_header = header.strip() if header else f"Col_{i}"
CleanHeader(header, i) ==
    IF header # <<>> THEN Strip(header) ELSE F_Col_ \o DecStr(i)

\* if clean_header in RENAME_MAP: clean_header = RENAME_MAP[clean_header]
Rename(clean) == IF clean \in DOMAIN RENAME_MAP THEN RENAME_MAP[clean] ELSE clean

Kept_NoDrop(clean) == clean # <<>>

\* if clean_header and clean_header not in DROP_COLS
Kept(clean) == clean # <<>> /\ clean \notin DROP_COLS

\* The loop "Map remaining columns" over the first k pairs of
\* zip(headers, cell_values)
RECURSIVE MapColumns(_, _, _, _, _, _)
MapColumns(row_dict, cells, hdrs, ath_idx, yob_idx, k) ==
    IF k = 0 THEN row_dict
    ELSE LET before == MapColumns(row_dict, cells, hdrs, ath_idx, yob_idx,
                                  k - 1)
             i == k - 1
             clean == Rename(CleanHeader(hdrs[k], i))
         IN  IF i = ath_idx \/ i = yob_idx THEN before
             ELSE IF Kept(clean) THEN Put(before, clean, CellValue(cells[k]))
             ELSE before

MinOf(a, b) == IF a < b THEN a ELSE b

AthleteFields_NoPlaceholder(cells, hdrs, resolved, raised) ==
    IF ~AthInRange(cells, hdrs) \/ raised THEN EmptyDict
    ELSE Put(Put(EmptyDict, F_Name, resolved), F_Club,
             StandardizeClub(RawClub(cells[AthIdx(cells, hdrs) + 1])))

\* What the try block leaves in row_dict.  resolved is what reorder_name
\* returned; raised says whether anything in the block raised.
AthleteFields(cells, hdrs, resolved, raised) ==
    IF ~AthInRange(cells, hdrs) THEN EmptyDict
    ELSE IF raised THEN Put(Put(EmptyDict, F_Name, F_Unknown), F_Club, F_Unknown)
    ELSE Put(Put(EmptyDict, F_Name, resolved), F_Club,
             StandardizeClub(RawClub(cells[AthIdx(cells, hdrs) + 1])))

\* row_dict after "Parse YOB"
YobField(row_dict, cells, hdrs) ==
    LET yob_idx == YobIdx(cells, hdrs) IN
    IF yob_idx >= 0 /\ yob_idx < Len(cells)
    THEN Put(row_dict, F_YOB, CellValue(cells[yob_idx + 1]))
    ELSE row_dict

\* parse_row_data(row, headers) for a row of at least 4 cells
ParseRowData(cells, hdrs, resolved, raised) ==
    LET ath_idx == AthIdx(cells, hdrs)
        yob_idx == YobIdx(cells, hdrs)
    IN  MapColumns(YobField(AthleteFields(cells, hdrs, resolved, raised),
                            cells, hdrs),
                   cells, hdrs, ath_idx, yob_idx,
                   MinOf(Len(hdrs), Len(cells)))

\* if not cells or len(cells) < 4: return None
IsSkipped(cells) == Len(cells) < 4

Stamp_NoSession(row_data) ==
    Put(Put(row_data, F_Competition, comp_name), F_Date, comp_date)

\* row_data['Competition'], ['Session'], ['Date'] as the row loop sets them
Stamp(row_data) ==
    Put(Put(Put(row_data, F_Competition, comp_name), F_Session, session_name),
        F_Date, comp_date)

\* "Add headers to master set": the schema after a session's header list
RECURSIVE AddHeaders(_, _)
AddHeaders(schema, hdrs) ==
    IF hdrs = <<>> THEN schema
    ELSE LET clean == Rename(Strip(Head(hdrs))) IN
         AddHeaders(IF Kept(clean) THEN schema \cup {clean} ELSE schema,
                    Tail(hdrs))

\* set(['Competition', 'Session', 'Name', 'YOB', 'Club', 'Score', 'Date'])
BaseHeaders == {F_Competition, F_Session, F_Name, F_YOB, F_Club, F_Score,
                F_Date}

----------------------------------------------------------------------------
(* The name resolver driven call by call: load_corrections as             *)
(* fetch_competition_data calls it on entry, reorder_name as              *)
(* parse_row_data calls it, the operator at the prompt, and a new run of  *)
(* the process over the files the last run left.                          *)

Str_A == <<"A">>
Str_AB == <<"A", " ", "B">>
Str_ABC_padded == <<" ", "A", " ", "B", " ", "C", " ">>
Str_Ay == <<"A", "y">>
Str_BeeA == <<"B", "e", "e", " ", "A">>
Str_CAB_padded == <<"C", " ", "A", " ", "B", " ">>
Str_GymClubInc == <<"G", "y", "m", " ", "C", "l", "u", "b", " ", "I", "n", "c", ".">>
Str_GymClub == <<"G", "y", "m", " ", "C", "l", "u", "b">>

NameLetters == <<"A", "B", "C", "D", "E", "F">>

\* n one-letter words, starting at the first-th letter
WordsFrom(first, n) == [i \in 1..n |-> <<NameLetters[first + i - 1]>>]

\* The words with two spaces between them
RECURSIVE JoinWide(_)
JoinWide(parts) ==
    IF parts = <<>> THEN <<>>
    ELSE IF Len(parts) = 1 THEN parts[1]
    ELSE parts[1] \o <<" ", " ">> \o JoinWide(Tail(parts))

\* The raw names reorder_name is called with: A, A B, A B C and A B C D,
\* the middle ones also with two spaces between the words, and B C D.  The
\* caller strips the name, so none starts or ends with white space.
RawNames ==
    {JoinSp(WordsFrom(1, n)) : n \in 1..4}
    \cup {JoinWide(WordsFrom(1, n)) : n \in 2..3}
    \cup {JoinSp(WordsFrom(2, 3))}

\* What the operator may type at the prompt
Choices == {<<"1">>, <<"2">>, <<"3">>, <<"0">>, <<"x">>, <<>>, <<" ", "2">>}

\* The athlete workbook a run may start from: none, an unreadable one, an
\* empty sheet, a header row alone, corrections entered by hand for a
\* one-word and a two-word name, and a sheet without header row.
AthleteFiles ==
    {NoFile, Corrupt, Sheet(<<>>), Sheet(<<HeaderRow>>),
     Sheet(<<HeaderRow, <<Str_A, Str_Ay>>, <<Str_AB, Str_BeeA>>>>),
     Sheet(<<<<Str_ABC_padded, Str_CAB_padded>>>>)}

ClubFiles == {NoFile, Sheet(<<HeaderRow, <<Str_GymClubInc, Str_GymClub>>>>)}

NoRow == [valid |-> FALSE, cells |-> <<>>, raised |-> FALSE,
          skipped |-> FALSE, appended |-> FALSE, dict |-> EmptyDict]

\* The row loop's variables while no table is being read
RowsIdle ==
    /\ headers = <<>>
    /\ comp_name = <<>>
    /\ comp_date = <<>>
    /\ session_name = <<>>
    /\ all_rows = <<>>
    /\ all_headers = {}
    /\ row_count = 0
    /\ rows_done = 0
    /\ lastrow = NoRow

ZeroStats == [in_progress |-> 0, completed |-> 0, failed |-> 0]

NoSession == [valid |-> FALSE, fetched |-> FALSE, table |-> FALSE,
              rows |-> 0, before |-> ZeroStats, records |-> 0, absent |-> 0]

NoReport == [done |-> FALSE, shown |-> FALSE, in_progress |-> 0]

NoCsv == [called |-> FALSE, written |-> FALSE, header |-> <<>>, rows |-> <<>>]

\* The aggregator's variables while no export is running
AggIdle ==
    /\ data_rows = <<>>
    /\ prop_ids = <<>>
    /\ visited = <<>>
    /\ master_rows = <<>>
    /\ master_headers = {}
    /\ total_stats = ZeroStats
    /\ stats = ZeroStats
    /\ processed = 0
    /\ sessions_done = 0
    /\ page_failed = 0
    /\ session_log = NoSession
    /\ csv = NoCsv
    /\ report = NoReport

NoClub == [valid |-> FALSE, raw |-> <<>>, result |-> <<>>]

NoFrame == [raw |-> <<>>, name |-> <<>>, parts |-> <<>>, cells |-> <<>>,
            club_raises |-> FALSE]

NoLast == [valid |-> FALSE, raw |-> <<>>, result |-> <<>>, kind |-> "none",
           prompted |-> FALSE, repeat |-> FALSE]

InitName ==
    /\ pandas \in BOOLEAN
    /\ athFile \in AthleteFiles
    /\ clubFile \in ClubFiles
    /\ CLUB_CORRECTIONS = EmptyDict
    /\ ATHLETE_CORRECTIONS = EmptyDict
    /\ NAME_CACHE = EmptyDict
    /\ pc = "start"
    /\ frame = NoFrame
    /\ run = 1
    /\ calls = 0
    /\ returned = EmptyDict
    /\ last = NoLast
    /\ chosen = EmptyDict
    /\ lastclub = NoClub
    /\ RowsIdle
    /\ reads = ZeroReads
    /\ AggIdle

\* load_corrections(), on entry to fetch_competition_data
N_Fetch ==
    /\ pc \in {"start", "ready"}
    /\ ReadsAfterLoad.club <= MaxReads
    /\ ReadsAfterLoad.athlete <= MaxReads
    /\ CLUB_CORRECTIONS' = LoadCorrections.club
    /\ ATHLETE_CORRECTIONS' = LoadCorrections.athlete
    /\ reads' = ReadsAfterLoad
    /\ pc' = "ready"
    /\ UNCHANGED <<pandas, athFile, clubFile, NAME_CACHE, frame, nameVars,
                   rowVars, data_rows, aggVars>>

\* reorder_name(raw), to its return or to its prompt
N_Call(raw) ==
    /\ pc = "ready"
    /\ calls < MaxCalls
    /\ calls' = calls + 1
    /\ LET r == ReorderNameAuto(raw) IN
       IF r.kind = "prompt"
       THEN /\ pc' = "prompt"
            /\ frame' = [raw |-> raw, name |-> NormalizeName(raw),
                         parts |-> Split(NormalizeName(raw)),
                         cells |-> <<>>, club_raises |-> FALSE]
            /\ UNCHANGED <<NAME_CACHE, returned, last>>
       ELSE /\ NAME_CACHE' = IF r.kind = "auto"
                             THEN CacheStore(NAME_CACHE, NormalizeName(raw),
                                             r.result)
                             ELSE NAME_CACHE
            /\ last' = [valid |-> TRUE, raw |-> raw, result |-> r.result,
                        kind |-> r.kind, prompted |-> FALSE,
                        repeat |-> raw \in DOMAIN returned]
            /\ returned' = IF raw \in DOMAIN returned THEN returned
                           ELSE Put(returned, raw, r.result)
            /\ UNCHANGED <<pc, frame>>
    /\ UNCHANGED <<pandas, athFile, clubFile, CLUB_CORRECTIONS,
                   ATHLETE_CORRECTIONS, run, chosen, lastclub, rowVars, data_rows,
                   reads, aggVars>>

\* The operator answers the prompt.  An invalid answer prints a message and
\* asks again; a valid one is saved, cached and returned.
N_Input(choice) ==
    /\ pc = "prompt"
    /\ frame.cells = <<>>
    /\ IF ValidChoice(choice, frame.parts)
       THEN LET result == ReorderSplit(frame.parts, ParseInt(Strip(choice)))
                saved == SaveAthleteCorrection(frame.name, result)
            IN  /\ athFile' = saved.file
                /\ ATHLETE_CORRECTIONS' = saved.athlete
                /\ NAME_CACHE' = CacheStore(NAME_CACHE, frame.name, result)
                /\ last' = [valid |-> TRUE, raw |-> frame.raw,
                            result |-> result, kind |-> "prompt",
                            prompted |-> TRUE,
                            repeat |-> frame.raw \in DOMAIN returned]
                /\ returned' = IF frame.raw \in DOMAIN returned THEN returned
                               ELSE Put(returned, frame.raw, result)
                /\ chosen' = Put(chosen, frame.name,
                                 [value |-> result, run |-> run,
                                  choice |-> choice,
                                  saved |-> frame.name \in DOMAIN saved.athlete])
                /\ pc' = "ready"
                /\ frame' = NoFrame
                /\ UNCHANGED <<pandas, clubFile, CLUB_CORRECTIONS, run, calls, lastclub,
                               rowVars, data_rows, reads, aggVars>>
       ELSE UNCHANGED vars

\* The process ends and a new one starts: the globals are empty again, the
\* workbooks are what the last run left on disk.
N_NewRun ==
    /\ pc = "ready"
    /\ run < MaxRuns
    /\ run' = run + 1
    /\ pandas' \in BOOLEAN
    /\ CLUB_CORRECTIONS' = EmptyDict
    /\ ATHLETE_CORRECTIONS' = EmptyDict
    /\ NAME_CACHE' = EmptyDict
    /\ pc' = "start"
    /\ returned' = EmptyDict
    /\ last' = NoLast
    /\ reads' = ZeroReads
    /\ UNCHANGED <<athFile, clubFile, frame, calls, chosen, lastclub, rowVars,
                   data_rows, aggVars>>

NextName ==
    \/ N_Fetch
    \/ \E raw \in RawNames : N_Call(raw)
    \/ \E choice \in Choices : N_Input(choice)
    \/ N_NewRun

SpecName == InitName /\ [][NextName]_vars

----------------------------------------------------------------------------
(* The row loop of fetch_competition_data over one session's table:      *)
(* parse_row_data on each row, the prompt it may block in, and the       *)
(* append to all_rows.                                                    *)

H_Rank == <<"R", "a", "n", "k">>
H_Surname == <<"S", "u", "r", "n", "a", "m", "e">>
H_Athlete == <<"A", "t", "h", "l", "e", "t", "e">>
T_1 == <<"1">>
T_2 == <<"2">>
T_3 == <<"3">>
T_4 == <<"4">>
T_5 == <<"5">>
T_7 == <<"7">>
T_8 == <<"8">>
T_9 == <<"9">>
T_2010 == <<"2", "0", "1", "0">>
T_2011 == <<"2", "0", "1", "1">>
T_x == <<"x">>
T_9_1 == <<"9", ".", "1">>
T_12_5 == <<"1", "2", ".", "5">>
T_8_0 == <<"8", ".", "0">>
T_B_A == <<"B", " ", " ", "A">>
T_ABC == <<"A", " ", "B", " ", "C">>
T_D == <<"D">>
T_GymClubIncON == <<"G", "y", "m", " ", "C", "l", "u", "b", " ", "I", "n", "c", ".", " ", "O", "N">>
T_ClubX == <<"C", "l", "u", "b", " ", "X">>
T_Cup == <<"C", "u", "p">>
T_S1 == <<"S", "1">>
T_Day == <<"2", "0", "2", "6", "-", "0", "1", "-", "0", "2">>

\* A cell "name<br>club", and the same with the name in a link
AthleteCell(name, club) ==
    [segs |-> <<name, club>>, haslink |-> FALSE, link |-> <<>>]
LinkCell(name) == [segs |-> <<name>>, haslink |-> TRUE, link |-> name]

\* The table rows: six cells with a two-word name and a club; five cells
\* with a three-word name in a link, no club and no year; three cells; and
\* four cells with a one-word name.
Row_Pair ==
    <<Cell(T_1), Cell(T_7), AthleteCell(T_B_A, T_GymClubIncON),
      Cell(T_2010), Cell(T_9_1), Cell(T_12_5)>>
Row_Link ==
    <<Cell(T_2), Cell(T_8), LinkCell(T_ABC), Cell(T_x), Cell(T_8_0)>>
Row_Short == <<Cell(T_3), Cell(T_9), Cell(T_D)>>
Row_Single ==
    <<Cell(T_4), Cell(T_5), AthleteCell(T_D, T_ClubX), Cell(T_2011)>>

TableRows == {Row_Pair, Row_Link, Row_Short, Row_Single}

\* Where the try block of parse_row_data may raise: nowhere, while the
\* cell is parsed (before reorder_name), or while the club is extracted
\* (after reorder_name)
Failures == {"no", "cell", "club"}

\* The header lists of a table, as get_text(strip=True) yields them
HeaderLists ==
    {<<h1, h2, h3, h4, h5>> \o h6 :
        h1 \in {H_Rank, H_Surname},
        h2 \in {<<>>, F_Club},
        h3 \in {F_Name, H_Athlete},
        h4 \in {F_Born, F_E},
        h5 \in {F_Total, F_SV, F_D},
        h6 \in {<<>>, <<F_Name>>}}
    \cup {<<H_Rank, <<>>, F_Name, h4, h5, F_SV>> :
            h4 \in {F_Born, F_E}, h5 \in {F_Total, F_SV}}

InitRow ==
    /\ pandas = TRUE
    /\ athFile = NoFile
    /\ clubFile = Sheet(<<HeaderRow, <<Str_GymClubInc, Str_GymClub>>>>)
    /\ CLUB_CORRECTIONS = DictOfRows(<<<<Str_GymClubInc, Str_GymClub>>>>)
    /\ ATHLETE_CORRECTIONS = EmptyDict
    /\ NAME_CACHE = EmptyDict
    /\ pc = "row"
    /\ frame = NoFrame
    /\ run = 1
    /\ calls = 0
    /\ returned = EmptyDict
    /\ last = NoLast
    /\ chosen = EmptyDict
    /\ lastclub = NoClub
    /\ headers \in HeaderLists
    /\ comp_name = T_Cup
    /\ comp_date = T_Day
    /\ session_name = T_S1
    /\ all_rows = <<>>
    /\ all_headers = AddHeaders(BaseHeaders, headers)
    /\ row_count = 0
    /\ rows_done = 0
    /\ lastrow = NoRow
    /\ reads = ZeroReads
    /\ AggIdle

\* The end of one iteration of "for tr in data_rows": parse_row_data
\* returns row_data, and a non-empty row_data is stamped and appended.
EmitRow(cells, resolved, raised) ==
    LET row_data == ParseRowData(cells, headers, resolved, raised) IN
    /\ all_rows' = IF IsEmpty(row_data) THEN all_rows
                   ELSE Append(all_rows, Stamp(row_data))
    /\ row_count' = IF IsEmpty(row_data) THEN row_count ELSE row_count + 1
    /\ lastrow' = [valid |-> TRUE, cells |-> cells, raised |-> raised,
                   skipped |-> FALSE, appended |-> ~IsEmpty(row_data),
                   dict |-> row_data]

\* One table row goes through parse_row_data, up to its return or to the
\* prompt of reorder_name.
RowStep(cells, fail) ==
    /\ rows_done' = rows_done + 1
    /\ IF IsSkipped(cells)
       THEN /\ lastrow' = [valid |-> TRUE, cells |-> cells, raised |-> FALSE,
                           skipped |-> TRUE, appended |-> FALSE,
                           dict |-> EmptyDict]
            /\ UNCHANGED <<NAME_CACHE, pc, frame, all_rows, row_count>>
       ELSE IF ~AthInRange(cells, headers) \/ fail = "cell"
       THEN /\ EmitRow(cells, <<>>, AthInRange(cells, headers))
            /\ UNCHANGED <<NAME_CACHE, pc, frame>>
       ELSE LET raw == RawName(cells[AthIdx(cells, headers) + 1])
                r == ReorderNameAuto(raw)
            IN  IF r.kind = "prompt"
                THEN /\ pc' = "prompt"
                     /\ frame' = [raw |-> raw, name |-> NormalizeName(raw),
                                  parts |-> Split(NormalizeName(raw)),
                                  cells |-> cells,
                                  club_raises |-> fail = "club"]
                     /\ UNCHANGED <<NAME_CACHE, all_rows, row_count, lastrow>>
                ELSE /\ NAME_CACHE' =
                            IF r.kind = "auto"
                            THEN CacheStore(NAME_CACHE, NormalizeName(raw),
                                            r.result)
                            ELSE NAME_CACHE
                     /\ EmitRow(cells, r.result, fail = "club")
                     /\ UNCHANGED <<pc, frame>>
    /\ UNCHANGED <<pandas, athFile, clubFile, CLUB_CORRECTIONS,
                   ATHLETE_CORRECTIONS, nameVars, headers, comp_name,
                   comp_date, session_name, all_headers, reads, aggVars>>

\* The row loop takes some row of the catalogue.
A_Row(cells, fail) ==
    /\ pc = "row"
    /\ rows_done < MaxRows
    /\ RowStep(cells, fail)
    /\ UNCHANGED data_rows

\* The operator answers the prompt a row is blocked in.
A_RowInput(choice) ==
    /\ pc = "prompt"
    /\ frame.cells # <<>>
    /\ IF ValidChoice(choice, frame.parts)
       THEN LET result == ReorderSplit(frame.parts, ParseInt(Strip(choice)))
                saved == SaveAthleteCorrection(frame.name, result)
            IN  /\ athFile' = saved.file
                /\ ATHLETE_CORRECTIONS' = saved.athlete
                /\ NAME_CACHE' = CacheStore(NAME_CACHE, frame.name, result)
                /\ EmitRow(frame.cells, result, frame.club_raises)
                /\ pc' = "row"
                /\ frame' = NoFrame
                /\ UNCHANGED <<pandas, clubFile, CLUB_CORRECTIONS, nameVars,
                               headers, comp_name, comp_date, session_name,
                               all_headers, rows_done, data_rows, reads,
                               aggVars>>
       ELSE UNCHANGED vars

\* Standard input is closed: input() raises EOFError, which leaves
\* reorder_name and is caught by the except clause of parse_row_data.
A_RowEOF ==
    /\ pc = "prompt"
    /\ frame.cells # <<>>
    /\ EmitRow(frame.cells, <<>>, TRUE)
    /\ pc' = "row"
    /\ frame' = NoFrame
    /\ UNCHANGED <<storeVars, nameVars, headers, comp_name, comp_date,
                   session_name, all_headers, rows_done, data_rows, reads,
                   aggVars>>

NextRow ==
    \/ \E cells \in TableRows, fail \in Failures : A_Row(cells, fail)
    \/ \E choice \in Choices : A_RowInput(choice)
    \/ A_RowEOF

SpecRow == InitRow /\ [][NextRow]_vars

----------------------------------------------------------------------------
(* write_csv *)

\* priority, line 483
Priority == <<F_Competition, F_Session, F_Name, F_YOB, F_Club, F_Score,
              F_Date>>

Range(seq) == {seq[i] : i \in 1..Len(seq)}

Least_Last(S) == CHOOSE x \in S : \A y \in S \ {x} : StrLess(y, x)

\* The first string of a set in the order of sorted()
Least(S) == CHOOSE x \in S : \A y \in S \ {x} : StrLess(x, y)

\* sorted(...) of a set of strings
RECURSIVE Sorted(_)
Sorted(S) == IF S = {} THEN <<>> ELSE <<Least(S)>> \o Sorted(S \ {Least(S)})

\* others, line 484
Others(hdrs) ==
    Sorted({h \in hdrs : h \notin Range(Priority) /\ h \notin DROP_COLS})

\* final_headers, line 485
FinalHeaders(hdrs) == Priority \o Others(hdrs)

\* A line of DictWriter(fieldnames=final, extrasaction='ignore'): the row's
\* value under each field name, '' where the row has none
CsvLine(row, final) ==
    [i \in 1..Len(final) |->
        IF final[i] \in DOMAIN row THEN row[final[i]] ELSE <<>>]

\* write_csv(rows, headers, filename); ok says whether the file could be
\* opened and written
WriteCsv(rows, hdrs, ok) ==
    IF rows = <<>> \/ ~ok
    THEN [called |-> TRUE, written |-> FALSE, header |-> <<>>, rows |-> <<>>]
    ELSE [called |-> TRUE, written |-> TRUE, header |-> FinalHeaders(hdrs),
          rows |-> [i \in 1..Len(rows) |->
                        CsvLine(rows[i], FinalHeaders(hdrs))]]

----------------------------------------------------------------------------
(* export_results_aggregated: the loop over the competition ids, and     *)
(* fetch_competition_data: the loop over a competition's sessions.  What *)
(* the site answers is chosen when it is asked.                          *)

MaxComps == 2
MaxSessions == 2

H_Vault == <<"V", "a", "u", "l", "t">>
H_Beam == <<"B", "e", "a", "m">>
T_0 == <<"0">>
T_S == <<"S">>

\* The text of the page's <h3>
CompName(pid) == T_Cup \o <<" ">> \o pid

\* The text of an <option>
SessionName(value) == T_S \o value

\* if value in ["0", ""]: continue
SkipValues == {T_0, <<>>}

\* The results tables of the site: their header list and their data rows
VaultTable ==
    [headers |-> <<H_Rank, <<>>, F_Name, F_Born, H_Vault, F_Total>>,
     rows |-> <<Row_Pair>>]
BeamTable ==
    [headers |-> <<H_Rank, <<>>, F_Name, F_E, H_Beam>>,
     rows |-> <<Row_Link, Row_Short>>]
ShortTable ==
    [headers |-> <<H_Rank, <<>>, F_Name>>, rows |-> <<Row_Short>>]
EmptyTable == [headers |-> <<>>, rows |-> <<>>]

Tables == {VaultTable, BeamTable, ShortTable, EmptyTable}

Init ==
    /\ pandas = TRUE
    /\ athFile \in {NoFile, Sheet(<<HeaderRow>>)}
    /\ clubFile \in ClubFiles
    /\ CLUB_CORRECTIONS = EmptyDict
    /\ ATHLETE_CORRECTIONS = EmptyDict
    /\ NAME_CACHE = EmptyDict
    /\ pc = "agg"
    /\ frame = NoFrame
    /\ run = 1
    /\ calls = 0
    /\ returned = EmptyDict
    /\ last = NoLast
    /\ chosen = EmptyDict
    /\ lastclub = NoClub
    /\ RowsIdle
    /\ data_rows = <<>>
    /\ reads = ZeroReads
    /\ prop_ids = [i \in 1..MaxComps |-> DecStr(i)]
    /\ visited = <<>>
    /\ master_rows = <<>>
    /\ master_headers = BaseHeaders
    /\ total_stats = ZeroStats
    /\ stats = ZeroStats
    /\ processed = 0
    /\ sessions_done = 0
    /\ page_failed = 0
    /\ session_log = NoSession
    /\ csv = NoCsv
    /\ report = NoReport

\* load_corrections(), line 366
LoadStep ==
    /\ CLUB_CORRECTIONS' = LoadCorrections.club
    /\ ATHLETE_CORRECTIONS' = LoadCorrections.athlete
    /\ reads' = ReadsAfterLoad

\* for key in total_stats: total_stats[key] += stats[key]
AddStats(total, st) == [key \in DOMAIN total |-> total[key] + st[key]]

Count_Twice(st, key) == [st EXCEPT ![key] = @ + 2]

\* stats[key] += 1
Count(st, key) == [st EXCEPT ![key] = @ + 1]

\* The counter a session past the skip test increments
SessionOutcome(fetched, table, n) ==
    IF ~fetched THEN "failed"
    ELSE IF ~table THEN "in_progress"
    ELSE IF n > 0 THEN "completed"
    ELSE "in_progress"

Accumulate_KeepHeaders(rows, hdrs, st) ==
    /\ master_rows' = IF rows # <<>> THEN master_rows \o rows ELSE master_rows
    /\ master_headers' = master_headers
    /\ total_stats' = [key \in DOMAIN total_stats |-> total_stats[key] + st[key]]
    /\ visited' = Append(visited, Head(prop_ids))
    /\ prop_ids' = Tail(prop_ids)

\* The body of "for pid in prop_ids" once fetch_competition_data has
\* returned rows, hdrs and st
Accumulate(rows, hdrs, st) ==
    /\ master_rows' = IF rows # <<>> THEN master_rows \o rows ELSE master_rows
    /\ master_headers' = IF rows # <<>> THEN master_headers \cup hdrs
                         ELSE master_headers
    /\ total_stats' = AddStats(total_stats, st)
    /\ visited' = Append(visited, Head(prop_ids))
    /\ prop_ids' = Tail(prop_ids)

\* The competition page cannot be fetched: lines 371-373
S_PageFail ==
    /\ pc = "agg"
    /\ prop_ids # <<>>
    /\ LoadStep
    /\ stats' = [in_progress |-> 0, completed |-> 0, failed |-> 0]
    /\ Accumulate(<<>>, {}, stats')
    /\ page_failed' = page_failed + 1
    /\ processed' = 0
    /\ session_log' = NoSession
    /\ UNCHANGED <<pandas, athFile, clubFile, NAME_CACHE, pc, frame, nameVars,
                   rowVars, data_rows, sessions_done, csv,
                   report>>

\* The page has no <select id="id_sut">: lines 385-390
S_NoSelect ==
    /\ pc = "agg"
    /\ prop_ids # <<>>
    /\ LoadStep
    /\ comp_name' = CompName(Head(prop_ids))
    /\ comp_date' = T_Day
    /\ stats' = [in_progress |-> 0, completed |-> 0, failed |-> 0]
    /\ Accumulate(<<>>, {}, stats')
    /\ processed' = 0
    /\ session_log' = NoSession
    /\ UNCHANGED <<pandas, athFile, clubFile, NAME_CACHE, pc, frame, nameVars,
                   headers, session_name, all_rows, all_headers, row_count,
                   rows_done, lastrow, data_rows, sessions_done, page_failed,
                   csv,
                   report>>

\* The page is fetched and lists its sessions: lines 366-396
S_Page ==
    /\ pc = "agg"
    /\ prop_ids # <<>>
    /\ LoadStep
    /\ comp_name' = CompName(Head(prop_ids))
    /\ comp_date' = T_Day
    /\ all_rows' = <<>>
    /\ all_headers' = BaseHeaders
    /\ stats' = ZeroStats
    /\ processed' = 0
    /\ session_log' = NoSession
    /\ pc' = "options"
    /\ UNCHANGED <<pandas, athFile, clubFile, NAME_CACHE, frame, nameVars,
                   headers, session_name, row_count, rows_done, lastrow,
                   data_rows, prop_ids, visited, master_rows, master_headers,
                   total_stats, sessions_done, page_failed, csv,
                   report>>

\* An option with value "0" or "": lines 399-403
S_SkipOption(value) ==
    /\ pc = "options"
    /\ session_name' = SessionName(value)
    /\ UNCHANGED <<storeVars, pc, frame, nameVars, headers, comp_name,
                   comp_date, all_rows, all_headers, row_count, rows_done,
                   lastrow, data_rows, reads, aggVars>>

\* An option whose results cannot be fetched (lines 411-415) or whose
\* results hold no table (lines 417-421)
S_NoResults(fetched) ==
    /\ pc = "options"
    /\ sessions_done < MaxSessions
    /\ session_name' = SessionName(DecStr(processed + 1))
    /\ stats' = Count(stats, SessionOutcome(fetched, FALSE, 0))
    /\ processed' = processed + 1
    /\ sessions_done' = sessions_done + 1
    /\ session_log' = [valid |-> TRUE, fetched |-> fetched, table |-> FALSE,
                       rows |-> 0, before |-> stats,
                       records |-> Len(all_rows),
                       absent |-> session_log.absent
                                    + (IF fetched THEN 1 ELSE 0)]
    /\ UNCHANGED <<storeVars, pc, frame, nameVars, headers, comp_name,
                   comp_date, all_rows, all_headers, row_count, rows_done,
                   lastrow, data_rows, reads, prop_ids, visited, master_rows,
                   master_headers, total_stats, page_failed, csv,
                   report>>

\* An option whose results hold a table: lines 423-450
S_Table(table) ==
    /\ pc = "options"
    /\ sessions_done < MaxSessions
    /\ session_name' = SessionName(DecStr(processed + 1))
    /\ headers' = table.headers
    /\ all_headers' = AddHeaders(all_headers, table.headers)
    /\ data_rows' = table.rows
    /\ row_count' = 0
    /\ rows_done' = 0
    /\ processed' = processed + 1
    /\ sessions_done' = sessions_done + 1
    /\ pc' = "row"
    /\ UNCHANGED <<storeVars, frame, nameVars, comp_name, comp_date, all_rows,
                   lastrow, reads, prop_ids, visited, master_rows,
                   master_headers, total_stats, stats, page_failed,
                   session_log, csv,
                   report>>

\* The next row of the table: lines 451-458
S_Row(fail) ==
    /\ pc = "row"
    /\ data_rows # <<>>
    /\ RowStep(Head(data_rows), fail)
    /\ data_rows' = Tail(data_rows)

\* The table has no more rows: lines 460-468
S_EndSession ==
    /\ pc = "row"
    /\ data_rows = <<>>
    /\ stats' = Count(stats, SessionOutcome(TRUE, TRUE, row_count))
    /\ session_log' = [valid |-> TRUE, fetched |-> TRUE, table |-> TRUE,
                       rows |-> row_count, before |-> stats,
                       records |-> Len(all_rows) - row_count,
                       absent |-> session_log.absent]
    /\ pc' = "options"
    /\ UNCHANGED <<storeVars, frame, nameVars, rowVars, data_rows, reads,
                   prop_ids, visited, master_rows, master_headers,
                   total_stats, processed, sessions_done, page_failed, csv,
                   report>>

\* The option loop ends and fetch_competition_data returns: line 470, then
\* lines 541-547
S_EndOptions ==
    /\ pc = "options"
    /\ Accumulate(all_rows, all_headers, stats)
    /\ pc' = "agg"
    /\ UNCHANGED <<storeVars, frame, nameVars, rowVars, data_rows, reads,
                   stats, processed, sessions_done, page_failed, session_log,
                   csv,
                   report>>

\* What lines 549-557 print about sessions in progress: the count, after a
\* file was written and if the count is positive; nothing otherwise.
ExportReport(rows, total, ok) ==
    IF rows # <<>> /\ ok /\ total.in_progress > 0
    THEN [done |-> TRUE, shown |-> TRUE, in_progress |-> total.in_progress]
    ELSE [done |-> TRUE, shown |-> FALSE, in_progress |-> 0]

\* All ids are done: lines 549-557
S_Finish(ok) ==
    /\ pc = "agg"
    /\ prop_ids = <<>>
    /\ csv' = IF master_rows # <<>>
              THEN WriteCsv(master_rows, master_headers, ok)
              ELSE csv
    /\ report' = ExportReport(master_rows, total_stats, ok)
    /\ pc' = "done"
    /\ UNCHANGED <<storeVars, frame, nameVars, rowVars, data_rows, reads,
                   prop_ids, visited, master_rows, master_headers,
                   total_stats, stats, processed, sessions_done, page_failed,
                   session_log>>

Next ==
    \/ S_PageFail
    \/ S_NoSelect
    \/ S_Page
    \/ \E value \in SkipValues : S_SkipOption(value)
    \/ \E fetched \in BOOLEAN : S_NoResults(fetched)
    \/ \E table \in Tables : S_Table(table)
    \/ \E fail \in Failures : S_Row(fail)
    \/ \E choice \in Choices : A_RowInput(choice)
    \/ A_RowEOF
    \/ S_EndSession
    \/ S_EndOptions
    \/ \E ok \in BOOLEAN : S_Finish(ok)

Spec == Init /\ [][Next]_vars

----------------------------------------------------------------------------
(* write_csv on its own: any schema, with and without rows *)

F_Extra == <<"E", "x", "t", "r", "a">>
F_Col_1 == <<"C", "o", "l", "_", "1">>

\* Schemas: the fields below in every one, any of the others added
SchemaCore == {F_Session, F_Name, F_YOB, F_Club, F_Score}
SchemaExtras == {F_Competition, F_Date, F_Extra, H_Beam, H_Vault, F_Col_1, F_D}
Schemas == {SchemaCore \cup extras : extras \in SUBSET SchemaExtras}

SampleRecord ==
    Put(Put(Put(EmptyDict, F_Name, T_D), F_Session, T_S1), H_Vault, T_9_1)

InitCsv ==
    /\ pandas = TRUE
    /\ athFile = NoFile
    /\ clubFile = NoFile
    /\ CLUB_CORRECTIONS = EmptyDict
    /\ ATHLETE_CORRECTIONS = EmptyDict
    /\ NAME_CACHE = EmptyDict
    /\ pc = "write"
    /\ frame = NoFrame
    /\ run = 1
    /\ calls = 0
    /\ returned = EmptyDict
    /\ last = NoLast
    /\ chosen = EmptyDict
    /\ lastclub = NoClub
    /\ RowsIdle
    /\ data_rows = <<>>
    /\ reads = ZeroReads
    /\ prop_ids = <<>>
    /\ visited = <<>>
    /\ master_rows \in {<<>>, <<SampleRecord>>}
    /\ master_headers \in Schemas
    /\ total_stats = ZeroStats
    /\ stats = ZeroStats
    /\ processed = 0
    /\ sessions_done = 0
    /\ page_failed = 0
    /\ session_log = NoSession
    /\ csv = NoCsv
    /\ report = NoReport

\* write_csv(master_rows, master_headers, filename)
W_Write(ok) ==
    /\ pc = "write"
    /\ csv' = WriteCsv(master_rows, master_headers, ok)
    /\ pc' = "done"
    /\ UNCHANGED <<storeVars, frame, nameVars, rowVars, data_rows, reads,
                   prop_ids, visited, master_rows, master_headers,
                   total_stats, stats, processed, sessions_done, page_failed,
                   session_log, report>>

NextCsv == \E ok \in BOOLEAN : W_Write(ok)

SpecCsv == InitCsv /\ [][NextCsv]_vars

----------------------------------------------------------------------------
(* standardize_club on its own: any club text, as parse_row_data passes it *)
(* (stripped), over a loaded club correction store                         *)

Str_Gym == <<"G", "y", "m">>
Str_GymWideClub == <<"G", "y", "m", " ", " ", "C", "l", "u", "b">>
Str_ON == <<"O", "N">>
Str_GymClubON == <<"G", "y", "m", " ", "C", "l", "u", "b", " ", "O", "N">>

ClubStems == {Str_Gym, Str_GymClub, Str_GymWideClub, Str_ON}

ClubEndings ==
    {<<>>,
     <<" ", "I", "n", "c">>,
     <<" ", "I", "n", "c", ".">>,
     <<" ", "O", "N">>,
     <<" ", "I", "n", "c", ".", " ", "O", "N">>,
     <<" ", "O", "N", " ", "I", "n", "c", ".">>,
     <<" ", "I", "n", "c", " ", "O", "N">>,
     <<" ", "i", "n", "c", ".", " ", "o", "n">>,
     <<" ", " ", "O", "N">>,
     <<" ", "I", "n", "c", ".", "O", "N">>,
     <<" ", "O", "N", "E">>,
     <<"I", "n", "c">>}

ClubNames ==
    {stem \o ending : stem \in ClubStems, ending \in ClubEndings} \cup {<<>>}

\* The club workbooks the store is loaded from
ClubSheets ==
    {NoFile,
     Sheet(<<HeaderRow, <<Str_GymClubInc, Str_GymClub>>>>),
     Sheet(<<HeaderRow, <<Str_Gym, Str_GymClubON>>>>)}

InitClub ==
    /\ pandas = TRUE
    /\ athFile = NoFile
    /\ clubFile \in ClubSheets
    /\ CLUB_CORRECTIONS = LoadExcelCorrections(clubFile)
    /\ ATHLETE_CORRECTIONS = EmptyDict
    /\ NAME_CACHE = EmptyDict
    /\ pc = "club"
    /\ frame = NoFrame
    /\ run = 1
    /\ calls = 0
    /\ returned = EmptyDict
    /\ last = NoLast
    /\ chosen = EmptyDict
    /\ lastclub = NoClub
    /\ RowsIdle
    /\ reads = ZeroReads
    /\ AggIdle

\* standardize_club(club_name)
K_Call(club_name) ==
    /\ pc = "club"
    /\ lastclub' = [valid |-> TRUE, raw |-> club_name,
                    result |-> StandardizeClub(club_name)]
    /\ UNCHANGED <<storeVars, pc, frame, run, calls, returned, last, chosen,
                   rowVars, data_rows, reads, aggVars>>

NextClub == \E club_name \in ClubNames : K_Call(club_name)

SpecClub == InitClub /\ [][NextClub]_vars

----------------------------------------------------------------------------
(* Claims about the name resolver, checked under SpecName *)

\* C1: within one run, once reorder_name(n) has returned v, every later
\* reorder_name(n) returns the same v, and the operator is not prompted for
\* n again.
C1_SameResultNoReprompt ==
    /\ (last.valid /\ last.repeat) =>
           (last.result = returned[last.raw] /\ ~last.prompted)
    /\ pc = "prompt" => frame.raw \notin DOMAIN returned

\* A name of three words was resolved at the prompt in this run, could not
\* be saved, and was then asked for again and served from NAME_CACHE.
C1_Witness ==
    /\ last.valid /\ last.repeat /\ last.kind = "cache"
    /\ NormalizeName(last.raw) \in DOMAIN chosen
    /\ chosen[NormalizeName(last.raw)].run = run
    /\ Len(Split(NormalizeName(last.raw))) >= 3

C3_SwapAlways ==
    last.valid =>
        LET parts == Split(NormalizeName(last.raw)) IN
        /\ Len(parts) = 2 =>
               (last.result = parts[2] \o <<" ">> \o parts[1]
                /\ ~last.prompted)
        /\ Len(parts) = 1 => (last.result = last.raw /\ ~last.prompted)

\* C3 as amended: a name of one or two words never prompts; if its
\* normalised form is a key of the athlete correction store the stored
\* correction is returned; otherwise a two-word name "A B" comes back as
\* "B A" and a one-word name as its normalised form.
C3_SwapUnlessStored ==
    /\ pc = "prompt" => Len(frame.parts) >= 3
    /\ last.valid =>
        LET name == NormalizeName(last.raw)
            parts == Split(name)
        IN  Len(parts) <= 2 =>
            /\ ~last.prompted
            /\ name \in DOMAIN ATHLETE_CORRECTIONS =>
                   last.result = ATHLETE_CORRECTIONS[name]
            /\ (name \notin DOMAIN ATHLETE_CORRECTIONS /\ Len(parts) = 2) =>
                   last.result = parts[2] \o <<" ">> \o parts[1]
            /\ (name \notin DOMAIN ATHLETE_CORRECTIONS /\ Len(parts) = 1) =>
                   last.result = name

\* A two-word name that is not in the store was swapped.
C3_Witness ==
    /\ last.valid /\ last.kind = "auto"
    /\ Len(Split(NormalizeName(last.raw))) = 2
    /\ NormalizeName(last.raw) \notin DOMAIN ATHLETE_CORRECTIONS
    /\ last.result # NormalizeName(last.raw)

----------------------------------------------------------------------------
(* Claims about the row loop, checked under SpecRow *)

\* The columns of a row that the loop "Map remaining columns" stores under
\* the field name field
MappedTo(cells, hdrs, field) ==
    LET consumed == {AthIdx(cells, hdrs), YobIdx(cells, hdrs)} IN
    {k \in 1..MinOf(Len(hdrs), Len(cells)) :
        /\ (k - 1) \notin consumed
        /\ Rename(CleanHeader(hdrs[k], k - 1)) = field}

YobInRange(cells, hdrs) ==
    LET yob_idx == YobIdx(cells, hdrs) IN yob_idx >= 0 /\ yob_idx < Len(cells)

Greatest(S) == CHOOSE x \in S : \A y \in S : y <= x

LastRecord == all_rows[Len(all_rows)]

\* C4: whatever the header list and the row, the record parse_row_data
\* returns, and so every record collected in all_rows, has no field named
\* on the drop list (E, Bonus, Comp, ND, D; the code's list also holds SV).
C4_NoDroppedField ==
    /\ (lastrow.valid /\ ~lastrow.skipped)
            => DOMAIN lastrow.dict \cap DROP_COLS = {}
    /\ \A i \in 1..Len(all_rows) : DOMAIN all_rows[i] \cap DROP_COLS = {}

\* C4 witness: a record was appended for a row in which a cell was paired
\* with a header of the drop list.
C4_Witness ==
    /\ lastrow.valid /\ lastrow.appended
    /\ \E k \in 1..MinOf(Len(headers), Len(lastrow.cells)) :
            /\ headers[k] \in {F_E, F_D}
            /\ (k - 1) # AthIdx(lastrow.cells, headers)

\* C5 as stated: every record appended to all_rows carries all of Name,
\* Club, YOB, Score, Session and Date.
C5_AllSixFields ==
    \A i \in 1..Len(all_rows) :
        {F_Name, F_Club, F_YOB, F_Score, F_Session, F_Date}
            \subseteq DOMAIN all_rows[i]

\* C5 amended: every appended record carries Competition, Session and Date;
\* Name and Club when the athlete column index lies within the row's cells;
\* YOB when a year column index is found within the row's cells; and each of
\* Name, YOB and Score is otherwise present exactly when another column of
\* the row is mapped to that field name.
C5_FieldsByColumns ==
    (lastrow.valid /\ lastrow.appended) =>
        LET r == LastRecord
            cells == lastrow.cells
        IN  /\ {F_Competition, F_Session, F_Date} \subseteq DOMAIN r
            /\ AthInRange(cells, headers) => {F_Name, F_Club} \subseteq DOMAIN r
            /\ YobInRange(cells, headers) => F_YOB \in DOMAIN r
            /\ F_Name \in DOMAIN r <=>
                    (AthInRange(cells, headers)
                        \/ MappedTo(cells, headers, F_Name) # {})
            /\ F_YOB \in DOMAIN r <=>
                    (YobInRange(cells, headers)
                        \/ MappedTo(cells, headers, F_YOB) # {})
            /\ F_Score \in DOMAIN r <=> MappedTo(cells, headers, F_Score) # {}

\* C5 witness: a row of at least four cells was appended with all the
\* fields, its athlete and year columns within the cells and a column
\* renamed to Score.
C5_Witness ==
    /\ lastrow.valid /\ lastrow.appended
    /\ Len(lastrow.cells) >= 4
    /\ AthInRange(lastrow.cells, headers)
    /\ YobInRange(lastrow.cells, headers)
    /\ MappedTo(lastrow.cells, headers, F_Score) # {}
    /\ {F_Name, F_Club, F_YOB, F_Score, F_Session, F_Date}
            \subseteq DOMAIN LastRecord

\* C10 as stated: when name/club extraction raises on a row of at least
\* four cells, the row is still appended with Name = "Unknown" and
\* Club = "Unknown"; a row of fewer than four cells is skipped.
C10_UnknownOnException ==
    /\ (lastrow.valid /\ lastrow.raised) =>
            /\ lastrow.appended
            /\ {F_Name, F_Club} \subseteq DOMAIN lastrow.dict
            /\ lastrow.dict[F_Name] = F_Unknown
            /\ lastrow.dict[F_Club] = F_Unknown
    /\ (lastrow.valid /\ Len(lastrow.cells) < 4) =>
            lastrow.skipped /\ ~lastrow.appended

\* C10 amended: when name/club extraction raises, the row is still appended
\* with the fields Name and Club, each "Unknown" unless another column of
\* the row is mapped to that field name, whose text then replaces it; a row
\* of fewer than four cells is skipped.
C10_UnknownUnlessOverwritten ==
    /\ (lastrow.valid /\ lastrow.raised) =>
            LET cells == lastrow.cells
                Field(f) ==
                    IF MappedTo(cells, headers, f) = {} THEN F_Unknown
                    ELSE CellValue(cells[Greatest(MappedTo(cells, headers, f))])
            IN  /\ lastrow.appended
                /\ {F_Name, F_Club} \subseteq DOMAIN lastrow.dict
                /\ lastrow.dict[F_Name] = Field(F_Name)
                /\ lastrow.dict[F_Club] = Field(F_Club)
                /\ LastRecord[F_Name] = Field(F_Name)
                /\ LastRecord[F_Club] = Field(F_Club)
    /\ (lastrow.valid /\ Len(lastrow.cells) < 4) =>
            lastrow.skipped /\ ~lastrow.appended
    /\ (lastrow.valid /\ lastrow.skipped) => Len(lastrow.cells) < 4

\* C10 witness: extraction raised on a row of at least four cells and the
\* row was appended with both placeholders.
C10_Witness ==
    /\ lastrow.valid /\ lastrow.raised /\ lastrow.appended
    /\ Len(lastrow.cells) >= 4
    /\ LastRecord[F_Name] = F_Unknown
    /\ LastRecord[F_Club] = F_Unknown

----------------------------------------------------------------------------
(* Claims about the aggregator, checked under Spec *)

SumStats(st) == st.completed + st.in_progress + st.failed

\* C6: every session past the skip test increments exactly one of failed,
\* in_progress and completed by one: failed if its fetch returned nothing,
\* in_progress if there was no table or no row was extracted, completed
\* otherwise; so the three counters sum to the number of such sessions.
C6_OneCounterPerSession ==
    /\ session_log.valid =>
            LET key == IF ~session_log.fetched THEN "failed"
                       ELSE IF ~session_log.table THEN "in_progress"
                       ELSE IF session_log.rows = 0 THEN "in_progress"
                       ELSE "completed"
            IN  stats = [session_log.before EXCEPT ![key] = @ + 1]
    /\ pc \in {"options", "agg", "done"} => SumStats(stats) = processed
    /\ pc \in {"row", "prompt"} => SumStats(stats) = processed - 1

\* C6 witness: a competition with one session completed and one failed.
C6_Witness ==
    /\ pc = "options"
    /\ processed = 2
    /\ stats.completed = 1
    /\ stats.failed = 1
    /\ session_log.valid

\* C8: a competition whose page cannot be fetched does not stop the run,
\* every id is still handed to fetch_competition_data, and the failure is
\* counted in the accumulated failed total.
C8_FailedCompetitionCounted ==
    /\ pc = "done" => Len(visited) = MaxComps
    /\ total_stats.failed >= page_failed

\* C9: over the fetch_competition_data calls of one run, load_corrections
\* reads each correction workbook at most once, whatever it contains.
C9_FilesReadAtMostOnce ==
    /\ reads.club <= 1
    /\ reads.athlete <= 1

----------------------------------------------------------------------------
(* Claims about write_csv, checked under SpecCsv *)

ExampleSchema ==
    {F_Score, F_Name, F_Extra, F_Club, F_YOB, F_Session, F_Date}

Increasing(seq) ==
    \A i \in 1..Len(seq) : \A j \in 1..Len(seq) :
        i < j => StrLess(seq[i], seq[j])

\* The header is prefix followed by exactly the fields of rest, in order
HeaderIs(header, prefix, rest) ==
    LET tail == SubSeq(header, Len(prefix) + 1, Len(header)) IN
    /\ Len(header) = Len(prefix) + Cardinality(rest)
    /\ SubSeq(header, 1, Len(prefix)) = prefix
    /\ Range(tail) = rest
    /\ Increasing(tail)

\* C7 as stated: the header is Competition only if the schema has it, then
\* Session, Name, YOB, Club, Score, Date, then all the remaining schema
\* fields in lexicographic order; for the schema {Score, Name, Extra, Club,
\* YOB, Session, Date} it is Session, Name, YOB, Club, Score, Date, Extra.
C7_CompetitionOnlyIfPresent ==
    csv.written =>
        /\ HeaderIs(csv.header,
                    (IF F_Competition \in master_headers
                     THEN <<F_Competition>> ELSE <<>>)
                        \o <<F_Session, F_Name, F_YOB, F_Club, F_Score, F_Date>>,
                    master_headers \ {F_Competition, F_Session, F_Name, F_YOB,
                                      F_Club, F_Score, F_Date})
        /\ master_headers = ExampleSchema =>
                csv.header = <<F_Session, F_Name, F_YOB, F_Club, F_Score,
                               F_Date, F_Extra>>

\* C7 amended: the header is always Competition, Session, Name, YOB, Club,
\* Score, Date, then the remaining schema fields that are not on the drop
\* list, in code point order; for the schema {Score, Name, Extra, Club, YOB,
\* Session, Date} it is Competition, Session, Name, YOB, Club, Score, Date,
\* Extra.
C7_FullPriorityPrefix ==
    csv.written =>
        /\ HeaderIs(csv.header,
                    <<F_Competition, F_Session, F_Name, F_YOB, F_Club,
                      F_Score, F_Date>>,
                    (master_headers \ {F_Competition, F_Session, F_Name,
                                       F_YOB, F_Club, F_Score, F_Date})
                        \ {F_E, F_Bonus, F_Comp, F_ND, F_D, F_SV})
        /\ master_headers = ExampleSchema =>
                csv.header = <<F_Competition, F_Session, F_Name, F_YOB, F_Club,
                               F_Score, F_Date, F_Extra>>

\* C7 witness: write_csv wrote the header for the example schema.
C7_Witness ==
    /\ csv.written
    /\ master_headers = ExampleSchema

----------------------------------------------------------------------------
(* Claims about the aggregated export, checked under Spec *)

\* The column of a header row that holds the field f
ColOf(header, f) == CHOOSE k \in 1..Len(header) : header[k] = f

\* The records of master_rows that carry the field f
RecordsWith(f) == {i \in 1..Len(master_rows) : f \in DOMAIN master_rows[i]}

\* C11: when the competitions of an aggregated export have the disjoint
\* extra columns Vault and Beam, the merged schema and the written header
\* hold both, every record of every competition is written, and a record
\* has the column it does not carry empty and the one it carries filled.
C11_MergedSchemaAndRows ==
    csv.written =>
        /\ Len(csv.rows) = Len(master_rows)
        /\ \A f \in {H_Vault, H_Beam} :
                RecordsWith(f) # {} =>
                    /\ f \in master_headers
                    /\ f \in Range(csv.header)
                    /\ \A i \in 1..Len(master_rows) :
                            csv.rows[i][ColOf(csv.header, f)] =
                                IF f \in DOMAIN master_rows[i]
                                THEN master_rows[i][f] ELSE <<>>

\* C11 witness: a written file with a record of the first competition that
\* has Vault and no Beam, and one of the second that has Beam and no Vault.
C11_Witness ==
    /\ csv.written
    /\ \E i \in RecordsWith(H_Vault) : \E j \in RecordsWith(H_Beam) :
            /\ master_rows[i][F_Competition] = CompName(T_1)
            /\ master_rows[j][F_Competition] = CompName(T_2)
            /\ H_Beam \notin DOMAIN master_rows[i]
            /\ H_Vault \notin DOMAIN master_rows[j]
            /\ csv.rows[i][ColOf(csv.header, H_Beam)] = <<>>
            /\ csv.rows[j][ColOf(csv.header, H_Vault)] = <<>>

\* C12: a session whose results hold no table adds no record and adds one
\* to in_progress; a competition all of whose sessions are such returns no
\* record and an in_progress count equal to its number of sessions; and the
\* export, unless writing the file failed, prints the in-progress count.
C12_AbsentTablesReported ==
    /\ (session_log.valid /\ session_log.fetched /\ ~session_log.table) =>
            /\ stats.in_progress = session_log.before.in_progress + 1
            /\ pc = "options" => Len(all_rows) = session_log.records
    /\ (pc = "agg" /\ session_log.valid /\ session_log.absent = processed) =>
            /\ all_rows = <<>>
            /\ stats.in_progress = processed
    /\ (pc = "done" /\ total_stats.in_progress > 0
            /\ (csv.called => csv.written)) =>
            /\ report.shown
            /\ report.in_progress = total_stats.in_progress

----------------------------------------------------------------------------
(* Claims about standardize_club, checked under SpecClub *)

\* s without its last n words and the white space before them
DropLastWords(s, n) ==
    LET words == Split(s)
        kept == Len(words) - n
    IN  IF kept = 0 THEN <<>>
        ELSE LET Ends(i) == Split(SubSeq(s, 1, i)) = SubSeq(words, 1, kept)
                 i == CHOOSE i \in 1..Len(s) : Ends(i) /\ ~IsSpace(s[i])
             IN  SubSeq(s, 1, i)

\* The text whose suffix is stripped: the store's entry for the trimmed
\* input if there is one, else the trimmed input
Looked(raw) ==
    IF Strip(raw) \in DOMAIN CLUB_CORRECTIONS
    THEN Strip(CLUB_CORRECTIONS[Strip(raw)])
    ELSE Strip(raw)

\* What is left of t when its longest trailing run of words that is in
\* pairs (two words) or in singles (one word), and has a word before it,
\* is taken off
WithoutSuffix(t, pairs, singles) ==
    LET words == Split(Lower(t))
        n == Len(words)
    IN  IF n >= 3 /\ SubSeq(words, n - 1, n) \in pairs
        THEN DropLastWords(t, 2)
        ELSE IF n >= 2 /\ words[n] \in singles THEN DropLastWords(t, 1)
        ELSE t

\* C13 as stated: empty input gives the empty string; otherwise the trimmed
\* input is replaced by its store entry if it has one and one trailing
\* 'Inc. ON', 'ON Inc.', 'Inc.' or 'ON' is stripped, whatever its case; a
\* club with no store entry and no such suffix comes back unchanged.
C13_DottedSuffixes ==
    lastclub.valid =>
        /\ lastclub.raw = <<>> => lastclub.result = <<>>
        /\ lastclub.result =
                WithoutSuffix(Looked(lastclub.raw),
                              {<<F_incdot, F_on>>, <<F_on, F_incdot>>},
                              {F_incdot, F_on})
        /\ (lastclub.raw \notin DOMAIN CLUB_CORRECTIONS
                /\ WithoutSuffix(lastclub.raw,
                                 {<<F_incdot, F_on>>, <<F_on, F_incdot>>},
                                 {F_incdot, F_on}) = lastclub.raw)
                => lastclub.result = lastclub.raw

\* C13 amended: as stated, but the dot after Inc is optional: the suffixes
\* are 'Inc ON', 'ON Inc', 'Inc' and 'ON', each Inc with or without a dot.
C13_OptionalDotSuffixes ==
    lastclub.valid =>
        /\ lastclub.raw = <<>> => lastclub.result = <<>>
        /\ lastclub.result =
                WithoutSuffix(Looked(lastclub.raw),
                              {<<F_incdot, F_on>>, <<F_on, F_incdot>>,
                               <<F_inc, F_on>>, <<F_on, F_inc>>},
                              {F_incdot, F_inc, F_on})
        /\ (lastclub.raw \notin DOMAIN CLUB_CORRECTIONS
                /\ WithoutSuffix(lastclub.raw,
                                 {<<F_incdot, F_on>>, <<F_on, F_incdot>>,
                                  <<F_inc, F_on>>, <<F_on, F_inc>>},
                                 {F_incdot, F_inc, F_on}) = lastclub.raw)
                => lastclub.result = lastclub.raw

\* C13 witness: "Gym Club Inc. ON", which the store does not hold, came
\* back as "Gym Club".
C13_Witness ==
    /\ lastclub.valid
    /\ lastclub.raw = T_GymClubIncON
    /\ lastclub.raw \notin DOMAIN CLUB_CORRECTIONS
    /\ lastclub.result = Str_GymClub

\* The number the operator typed, read as the code reads it: surrounding
\* blanks dropped, then the decimal value.
Entered(choice) == ParseInt(Strip(choice))

\* Words k+1..n of a name followed by its words 1..k, single-spaced
Rotated(words, k) ==
    JoinSp(SubSeq(words, k + 1, Len(words)) \o SubSeq(words, 1, k))

\* The athlete workbook holds the row (name, result)
Persisted(name, result) ==
    /\ athFile.kind = "sheet"
    /\ \E i \in 1..Len(athFile.rows) : athFile.rows[i] = <<name, result>>

\* The prompt is only ever open for a name of three or more words that is in
\* neither the store nor the cache, and an answer that is not a number k with
\* 1 <= k < n leaves every variable as it was.
PromptOpenOnlyForUnknown ==
    pc = "prompt" /\ frame.cells = <<>> =>
        /\ Len(frame.parts) >= 3
        /\ frame.name \notin DOMAIN ATHLETE_CORRECTIONS
        /\ frame.name \notin DOMAIN NAME_CACHE

\* The call that just returned after a prompt returned words k+1..n then
\* words 1..k for the k entered, and the cache holds that result.
PromptedResultCachedReturned ==
    (last.valid /\ last.prompted) =>
        LET name == NormalizeName(last.raw)
            words == Split(name)
        IN  /\ Len(words) >= 3
            /\ name \in DOMAIN chosen
            /\ chosen[name].run = run
            /\ IsDigitStr(Strip(chosen[name].choice))
            /\ Entered(chosen[name].choice) \in 1..(Len(words) - 1)
            /\ last.result = Rotated(words, Entered(chosen[name].choice))
            /\ name \in DOMAIN NAME_CACHE
            /\ NAME_CACHE[name] = last.result

ScoreColumns(cells, hdrs) ==
    LET consumed == {AthIdx(cells, hdrs), YobIdx(cells, hdrs)} IN
    {k \in 1..MinOf(Len(hdrs), Len(cells)) :
        (k - 1) \notin consumed /\ hdrs[k] \in {F_SV, F_Total}}

\* C15 as stated: in every parsed row the value of each column headed SV or
\* Total (not the athlete or year column) is stored under Score and under
\* neither raw header, and Score is in the schema of the table.
C15_ScoreColumnsStored ==
    (lastrow.valid /\ ~lastrow.skipped) =>
        \A k \in ScoreColumns(lastrow.cells, headers) :
            /\ F_Score \in DOMAIN lastrow.dict
            /\ lastrow.dict[F_Score] = CellValue(lastrow.cells[k])
            /\ {F_SV, F_Total} \cap DOMAIN lastrow.dict = {}
            /\ F_Score \in all_headers

\* C16 as stated: every field name of every collected record is in the
\* accumulated schema, in the session loop and in the aggregator alike, and
\* the file write_csv writes has a column for every field of every record.
C16_EveryFieldInSchema ==
    /\ \A i \in 1..Len(all_rows) : DOMAIN all_rows[i] \subseteq all_headers
    /\ \A i \in 1..Len(master_rows) :
            DOMAIN master_rows[i] \subseteq master_headers
    /\ csv.written =>
            \A i \in 1..Len(master_rows) :
                DOMAIN master_rows[i] \subseteq Range(csv.header)

\* C16 witness: the export wrote a file although a collected record holds
\* a field Col_1 for which the header row has no column.
C16_Witness ==
    /\ csv.written
    /\ \E i \in 1..Len(master_rows) :
            /\ F_Col_1 \in DOMAIN master_rows[i]
            /\ F_Col_1 \notin master_headers
            /\ F_Col_1 \notin Range(csv.header)

============================================================================
